---- MODULE Spec2Model ----
(***************************************************************************)
(* A model of laia/engine/feeders/tensor_feeder.py: TensorFeeder, the      *)
(* feeder that sets the gradient flag of a batch and moves it to a device. *)
(*                                                                         *)
(* Tensors are objects on a heap (a sequence; an object's id is its index) *)
(* so that an in-place change of the caller's tensor, an alias returned by *)
(* a no-op transfer and a fresh copy are told apart.  One tensor object is *)
(* the record of what the feeder reads or changes: its device, its         *)
(* requires_grad flag, whether it is a leaf of the autograd graph and      *)
(* whether its dtype is a floating point one.  The autograd mode is the    *)
(* default one (gradients enabled), PaddedTensor and PackedSequence are    *)
(* the plain named tuples (data, sizes) and (data, batch_sizes), and the   *)
(* two tensors of one input are two distinct objects.                      *)
(***************************************************************************)
EXTENDS Integers, Sequences, FiniteSets, TLC

\* Devices are numbered 1..NumDevices (1 is the cpu).
NumDevices == 2
\* The number of calls of feed the caller makes on one feeder.
MaxCalls == 2

Devices == 1..NumDevices

\* torch.Tensor, reduced to the attributes the feeder reads or changes.  A
\* tensor that is not a leaf requires grad; only floating point tensors can.
TensorStates ==
  { t \in [device : Devices, requires_grad : BOOLEAN,
           is_leaf : BOOLEAN, is_floating_point : BOOLEAN] :
      /\ (~t.is_leaf => t.requires_grad)
      /\ (t.requires_grad => t.is_floating_point) }

\* The runtime types of the values handed to the feeder: the three the feeder
\* accepts, and two it does not (a dict holding a padded batch, a list).
RecognizedKinds == {"Tensor", "PaddedTensor", "PackedSequence"}
InputKinds == RecognizedKinds \cup {"dict", "list"}

\* A value: its runtime type and the heap ids of its tensors.  A Tensor is
\* its own data and has no second tensor (sizes = 0); sizes is batch_sizes
\* for a PackedSequence; a list holds no tensor.
Value(kind, data, sizes) == [kind |-> kind, data |-> data, sizes |-> sizes]
NoValue == Value("None", 0, 0)

\* The outcome of a call: a returned value, or a raised error (arg: the
\* runtime type the error message names, for the ValueError).
Return(v) == [kind |-> "return", value |-> v, error |-> "", arg |-> ""]
Raise(e, a) == [kind |-> "raise", value |-> NoValue, error |-> e, arg |-> a]
NoOutcome == [kind |-> "none", value |-> NoValue, error |-> "", arg |-> ""]

\* One entry of the call log: the primitive that ran, the heap object it ran
\* on, its device or flag argument, and the error it raised ("" for none).
Entry(op, obj, device, flag, raised) ==
  [op |-> op, obj |-> obj, device |-> device, flag |-> flag, raised |-> raised]

\* What the environment makes fail in one call: nothing, the transfer of the
\* descriptor or the transfer of the data (out of memory, device unavailable).
EnvFails == {"none", "sizes", "data"}
ToError == "RuntimeError: to"
GradError == "RuntimeError: requires_grad_"

\* Tensor.to(device): the tensor itself when it already is on the device,
\* else a copy on the device.  The copy keeps dtype and requires_grad, and is
\* a leaf only when it does not require grad.  A copy can fail (envOk false).
to(h, id, device, envOk) ==
  IF h[id].device = device
    THEN [heap |-> h, id |-> id, raised |-> ""]
    ELSE IF ~envOk
      THEN [heap |-> h, id |-> 0, raised |-> ToError]
      ELSE [heap |-> Append(h, [device |-> device,
                                requires_grad |-> h[id].requires_grad,
                                is_leaf |-> ~h[id].requires_grad,
                                is_floating_point |-> h[id].is_floating_point]),
            id |-> Len(h) + 1, raised |-> ""]

\* Tensor.requires_grad_(flag): sets the flag in place and returns the tensor;
\* raises on clearing the flag of a non-leaf and on setting the flag of a
\* tensor that is not floating point.
requires_grad_(h, id, flag) ==
  IF (~h[id].is_leaf /\ ~flag) \/ (flag /\ ~h[id].is_floating_point)
    THEN [heap |-> h, id |-> 0, raised |-> GradError]
    ELSE [heap |-> [h EXCEPT ![id].requires_grad = flag],
          id |-> id, raised |-> ""]

\* The result of a branch of _feed: the outcome, the heap and the feeder
\* after it, and the primitives it ran.
Result(outcome, h, log, self) ==
  [outcome |-> outcome, heap |-> h, log |-> log, self |-> self]

\* FeedTensor with a bug: the feeder adopts the device of the tensor it is fed.
FeedTensor_AdoptsDevice(self, x, h, env) ==
  Result(Raise("TypeError", "bool"), h,
         << Entry("requires_grad", x.data, 0, h[x.data].requires_grad, "") >>,
         [self EXCEPT !._device = h[x.data].device])

\* Line 34.  requires_grad is the tensor's boolean attribute, not a method:
\* the attribute is read and calling it raises TypeError, before any transfer.
FeedTensor(self, x, h, env) ==
  Result(Raise("TypeError", "bool"), h,
         << Entry("requires_grad", x.data, 0, h[x.data].requires_grad, "") >>,
         self)

\* FeedPadded with a bug: the sizes are moved, and the batch returned wraps
\* the sizes as they came.
FeedPadded_SizesLeftBehind(self, x, h, env) ==
  LET xs == to(h, x.sizes, self._device, env # "sizes")
      e1 == Entry("to", x.sizes, self._device, FALSE, xs.raised)
  IN IF xs.raised # "" THEN Result(Raise(xs.raised, ""), xs.heap, <<e1>>, self)
     ELSE
  LET g  == requires_grad_(xs.heap, x.data, self._requires_grad)
      e2 == Entry("requires_grad_", x.data, 0, self._requires_grad, g.raised)
  IN IF g.raised # "" THEN Result(Raise(g.raised, ""), g.heap, <<e1, e2>>, self)
     ELSE
  LET d  == to(g.heap, g.id, self._device, env # "data")
      e3 == Entry("to", g.id, self._device, FALSE, d.raised)
  IN IF d.raised # ""
       THEN Result(Raise(d.raised, ""), d.heap, <<e1, e2, e3>>, self)
       ELSE Result(Return(Value("PaddedTensor", d.id, x.sizes)), d.heap,
                   <<e1, e2, e3, Entry("PaddedTensor", d.id, 0, FALSE, "")>>,
                   self)

\* FeedPadded with a bug: the data is moved first and the flag is set on what
\* the transfer returned.
FeedPadded_MoveThenFlag(self, x, h, env) ==
  LET xs == to(h, x.sizes, self._device, env # "sizes")
      e1 == Entry("to", x.sizes, self._device, FALSE, xs.raised)
  IN IF xs.raised # "" THEN Result(Raise(xs.raised, ""), xs.heap, <<e1>>, self)
     ELSE
  LET d  == to(xs.heap, x.data, self._device, env # "data")
      e2 == Entry("to", x.data, self._device, FALSE, d.raised)
  IN IF d.raised # "" THEN Result(Raise(d.raised, ""), d.heap, <<e1, e2>>, self)
     ELSE
  LET g  == requires_grad_(d.heap, d.id, self._requires_grad)
      e3 == Entry("requires_grad_", d.id, 0, self._requires_grad, g.raised)
  IN IF g.raised # ""
       THEN Result(Raise(g.raised, ""), g.heap, <<e1, e2, e3>>, self)
       ELSE Result(Return(Value("PaddedTensor", g.id, xs.id)), g.heap,
                   <<e1, e2, e3, Entry("PaddedTensor", g.id, 0, FALSE, "")>>,
                   self)

\* Lines 36-38.
FeedPadded(self, x, h, env) ==
  LET xs == to(h, x.sizes, self._device, env # "sizes")
      e1 == Entry("to", x.sizes, self._device, FALSE, xs.raised)
  IN IF xs.raised # "" THEN Result(Raise(xs.raised, ""), xs.heap, <<e1>>, self)
     ELSE
  LET g  == requires_grad_(xs.heap, x.data, self._requires_grad)
      e2 == Entry("requires_grad_", x.data, 0, self._requires_grad, g.raised)
  IN IF g.raised # "" THEN Result(Raise(g.raised, ""), g.heap, <<e1, e2>>, self)
     ELSE
  LET d  == to(g.heap, g.id, self._device, env # "data")
      e3 == Entry("to", g.id, self._device, FALSE, d.raised)
  IN IF d.raised # ""
       THEN Result(Raise(d.raised, ""), d.heap, <<e1, e2, e3>>, self)
       ELSE Result(Return(Value("PaddedTensor", d.id, xs.id)), d.heap,
                   <<e1, e2, e3, Entry("PaddedTensor", d.id, 0, FALSE, "")>>,
                   self)

\* FeedPacked with a bug: the flag is not set on the data.
FeedPacked_FlagNotSet(self, x, h, env) ==
  LET xs == to(h, x.sizes, self._device, env # "sizes")
      e1 == Entry("to", x.sizes, self._device, FALSE, xs.raised)
  IN IF xs.raised # "" THEN Result(Raise(xs.raised, ""), xs.heap, <<e1>>, self)
     ELSE
  LET d  == to(xs.heap, x.data, self._device, env # "data")
      e3 == Entry("to", x.data, self._device, FALSE, d.raised)
  IN IF d.raised # ""
       THEN Result(Raise(d.raised, ""), d.heap, <<e1, e3>>, self)
       ELSE Result(Return(Value("PackedSequence", d.id, xs.id)), d.heap,
                   <<e1, e3, Entry("PackedSequence", d.id, 0, FALSE, "")>>,
                   self)

\* FeedPacked with a bug: the flag is set on the batch sizes as on the data.
FeedPacked_FlagOnBatchSizes(self, x, h, env) ==
  LET gs == requires_grad_(h, x.sizes, self._requires_grad)
      e0 == Entry("requires_grad_", x.sizes, 0, self._requires_grad, gs.raised)
  IN IF gs.raised # "" THEN Result(Raise(gs.raised, ""), gs.heap, <<e0>>, self)
     ELSE
  LET xs == to(gs.heap, gs.id, self._device, env # "sizes")
      e1 == Entry("to", gs.id, self._device, FALSE, xs.raised)
  IN IF xs.raised # ""
       THEN Result(Raise(xs.raised, ""), xs.heap, <<e0, e1>>, self)
     ELSE
  LET g  == requires_grad_(xs.heap, x.data, self._requires_grad)
      e2 == Entry("requires_grad_", x.data, 0, self._requires_grad, g.raised)
  IN IF g.raised # ""
       THEN Result(Raise(g.raised, ""), g.heap, <<e0, e1, e2>>, self)
     ELSE
  LET d  == to(g.heap, g.id, self._device, env # "data")
      e3 == Entry("to", g.id, self._device, FALSE, d.raised)
  IN IF d.raised # ""
       THEN Result(Raise(d.raised, ""), d.heap, <<e0, e1, e2, e3>>, self)
       ELSE Result(Return(Value("PackedSequence", d.id, xs.id)), d.heap,
                   <<e0, e1, e2, e3, Entry("PackedSequence", d.id, 0, FALSE, "")>>,
                   self)

\* Lines 40-42.
FeedPacked(self, x, h, env) ==
  LET xs == to(h, x.sizes, self._device, env # "sizes")
      e1 == Entry("to", x.sizes, self._device, FALSE, xs.raised)
  IN IF xs.raised # "" THEN Result(Raise(xs.raised, ""), xs.heap, <<e1>>, self)
     ELSE
  LET g  == requires_grad_(xs.heap, x.data, self._requires_grad)
      e2 == Entry("requires_grad_", x.data, 0, self._requires_grad, g.raised)
  IN IF g.raised # "" THEN Result(Raise(g.raised, ""), g.heap, <<e1, e2>>, self)
     ELSE
  LET d  == to(g.heap, g.id, self._device, env # "data")
      e3 == Entry("to", g.id, self._device, FALSE, d.raised)
  IN IF d.raised # ""
       THEN Result(Raise(d.raised, ""), d.heap, <<e1, e2, e3>>, self)
       ELSE Result(Return(Value("PackedSequence", d.id, xs.id)), d.heap,
                   <<e1, e2, e3, Entry("PackedSequence", d.id, 0, FALSE, "")>>,
                   self)

\* Line 44.
FeedOther(self, x, h, env) ==
  Result(Raise("ValueError", x.kind), h, << >>, self)

\* _feed with a bug: whatever has data and sizes is taken for a PaddedTensor.
_feed_DuckTyped(self, x, h, env) ==
  IF x.kind = "Tensor" THEN FeedTensor(self, x, h, env)
  ELSE IF x.kind \in {"PaddedTensor", "dict"} THEN FeedPadded(self, x, h, env)
  ELSE IF x.kind = "PackedSequence" THEN FeedPacked(self, x, h, env)
  ELSE FeedOther(self, x, h, env)

\* TensorFeeder._feed: the dispatch on the runtime type of x.
_feed(self, x, h, env) ==
  IF x.kind = "Tensor" THEN FeedTensor(self, x, h, env)
  ELSE IF x.kind = "PaddedTensor" THEN FeedPadded(self, x, h, env)
  ELSE IF x.kind = "PackedSequence" THEN FeedPacked(self, x, h, env)
  ELSE FeedOther(self, x, h, env)

\* The parent feeders of the model: none, one that returns its input, one
\* that takes the padded batch out of a dict, one that returns a list.
ParentFeeders == {"None", "identity", "item", "to_list"}

\* What the parent feeder returns for x.
Upstream(parent, x) ==
  IF parent = "item" /\ x.kind = "dict" THEN Value("PaddedTensor", x.data, x.sizes)
  ELSE IF parent = "to_list" THEN Value("list", 0, 0)
  ELSE x

\* feed with a bug: the parent is fed and _feed runs on x all the same.
feed_DispatchOnInput(self, x, h, env) ==
  IF self._parent_feeder = "None" THEN _feed(self, x, h, env)
  ELSE LET r == _feed(self, x, h, env)
       IN [r EXCEPT !.log = << Entry("parent", x.data, 0, FALSE, "") >> \o r.log]

\* Feeder.feed: the parent feeder, when there is one, is fed first, and _feed
\* runs on what it returns.
feed(self, x, h, env) ==
  IF self._parent_feeder = "None" THEN _feed(self, x, h, env)
  ELSE LET r == _feed(self, Upstream(self._parent_feeder, x), h, env)
       IN [r EXCEPT !.log = << Entry("parent", x.data, 0, FALSE, "") >> \o r.log]

\* TensorFeeder.__init__: requires_grad defaults to False.
FlagArgs == {"default", "True", "False"}
NewFeeder(device, flagArg, parent) ==
  [_device |-> device, _requires_grad |-> (flagArg = "True"),
   _parent_feeder |-> parent]

VARIABLES
  self,      \* the feeder: _device, _requires_grad, _parent_feeder
  ctor,      \* the arguments the feeder was constructed with
  heap,      \* the tensors, after the last call
  heap0,     \* the tensors, before the last call
  x,         \* the value the caller passed to the last call
  outcome,   \* what the last call returned or raised
  log,       \* the primitives the last call ran, in order
  envFail,   \* what the environment made fail in the last call
  again,     \* the last call was fed the result of the call before it
  ncalls     \* the number of calls made

vars == <<self, ctor, heap, heap0, x, outcome, log, envFail, again, ncalls>>

Init ==
  /\ ctor \in [device : Devices, requires_grad : FlagArgs,
               parent_feeder : ParentFeeders]
  /\ self = NewFeeder(ctor.device, ctor.requires_grad, ctor.parent_feeder)
  /\ heap = << >>
  /\ heap0 = << >>
  /\ x = NoValue
  /\ outcome = NoOutcome
  /\ log = << >>
  /\ envFail = "none"
  /\ again = FALSE
  /\ ncalls = 0

\* One call feeder(v) on the heap h.
Call(v, h, env, isAgain) ==
  LET r == feed(self, v, h, env)
  IN /\ ncalls < MaxCalls
     /\ x' = v
     /\ heap0' = h
     /\ envFail' = env
     /\ again' = isAgain
     /\ heap' = r.heap
     /\ outcome' = r.outcome
     /\ log' = r.log
     /\ self' = r.self
     /\ ncalls' = ncalls + 1
     /\ UNCHANGED ctor

\* The caller builds its first batch and feeds it.  The heap holds the two
\* tensors of the batch; a Tensor is object 1 and object 2 is a tensor of the
\* caller's that is not part of the input.
Feed ==
  /\ ncalls = 0
  /\ \E t1 \in TensorStates, t2 \in TensorStates, kind \in InputKinds, env \in EnvFails :
       Call(IF kind = "Tensor" THEN Value(kind, 1, 0)
            ELSE IF kind = "list" THEN Value(kind, 0, 0)
            ELSE Value(kind, 1, 2),
            <<t1, t2>>, env, FALSE)

\* The caller feeds the value the last call returned.
FeedAgain ==
  /\ outcome.kind = "return"
  /\ \E env \in EnvFails : Call(outcome.value, heap, env, TRUE)

\* The caller feeds the same batch once more, as the last call left it (a
\* retry after an error, a second epoch over the same tensors).
Refeed ==
  /\ ncalls > 0
  /\ \E env \in EnvFails : Call(x, heap, env, FALSE)

Next == Feed \/ FeedAgain \/ Refeed

Spec == Init /\ [][Next]_vars

(***************************************************************************)
(* The vocabulary of the properties.                                       *)
(***************************************************************************)

\* A call has been made: x, heap0, heap, outcome and log are those of it.
Called == ncalls > 0

\* The feeder as the constructor arguments make it.
Constructed == NewFeeder(ctor.device, ctor.requires_grad, ctor.parent_feeder)

\* The value _feed ran on in the last call: x, or what the parent made of it.
Arg ==
  IF ctor.parent_feeder = "None" THEN x ELSE Upstream(ctor.parent_feeder, x)

\* The primitives _feed ran in the last call (the log without the parent).
PrimLog == SelectSeq(log, LAMBDA e : e.op # "parent")

\* A primitive raised in the last call.
PrimitiveRaised == \E i \in DOMAIN log : log[i].raised # ""

\* The last call raised the error its last primitive raised, and no other.
RaisedByPrimitive ==
  /\ outcome.kind = "raise"
  /\ outcome.value = NoValue
  /\ log # << >>
  /\ log[Len(log)].raised # ""
  /\ outcome.error = log[Len(log)].raised
  /\ \A i \in 1..(Len(log) - 1) : log[i].raised = ""

IsBatch(v) == v.kind \in {"PaddedTensor", "PackedSequence"}

\* C1: for every Tensor input, unless a primitive raises, the call returns a
\* Tensor whose requires_grad flag is the configured flag and whose device is
\* the configured device.
C1_TensorFedToDevice ==
  (Called /\ Arg.kind = "Tensor" /\ ~PrimitiveRaised) =>
     /\ outcome.kind = "return"
     /\ outcome.value.kind = "Tensor"
     /\ heap[outcome.value.data].requires_grad = self._requires_grad
     /\ heap[outcome.value.data].device = self._device

\* What C2 and C3 say of a call on a batch of the given type: it returns a new
\* batch of that type with data and descriptor on the configured device, the
\* data with the configured flag and the descriptor with the flag it had; and
\* when it does not return, that is the error of a primitive that raised.
BatchFedToDevice(kind) ==
  (Called /\ Arg.kind = kind) =>
     IF outcome.kind = "return"
       THEN /\ outcome.value.kind = kind
            /\ PrimLog # << >>
            /\ PrimLog[Len(PrimLog)].op = kind
            /\ heap[outcome.value.data].device = self._device
            /\ heap[outcome.value.sizes].device = self._device
            /\ heap[outcome.value.data].requires_grad = self._requires_grad
            /\ heap[outcome.value.sizes].requires_grad
                 = heap0[Arg.sizes].requires_grad
       ELSE RaisedByPrimitive

\* A call on a batch of the given type that had to move both tensors and to
\* change the flag of the data, the descriptor's flag being the opposite one.
BatchMovedAndFlagged(kind) ==
  /\ Called /\ Arg.kind = kind /\ outcome.kind = "return"
  /\ heap0[Arg.data].device # self._device
  /\ heap0[Arg.sizes].device # self._device
  /\ heap0[Arg.data].requires_grad # self._requires_grad
  /\ heap0[Arg.sizes].requires_grad # self._requires_grad

\* C2: for every PaddedTensor input the call returns a new PaddedTensor whose
\* data and sizes are on the configured device, whose data has the configured
\* flag and whose sizes keep the flag they had.
C2_PaddedFedToDevice == BatchFedToDevice("PaddedTensor")
C2_Witness == BatchMovedAndFlagged("PaddedTensor")

\* C3: for every PackedSequence input the call returns a new PackedSequence
\* whose data and batch_sizes are on the configured device, whose data has the
\* configured flag and whose batch_sizes keep the flag they had.
C3_PackedFedToDevice == BatchFedToDevice("PackedSequence")
C3_Witness == BatchMovedAndFlagged("PackedSequence")

\* C4: for an input of any other type the call raises ValueError naming that
\* type, returns nothing, runs no transfer and no flag change, and leaves the
\* tensors and the feeder as they were.
C4_UnsupportedTypeRaises ==
  (Called /\ Arg.kind \notin RecognizedKinds) =>
     /\ outcome = Raise("ValueError", Arg.kind)
     /\ PrimLog = << >>
     /\ heap = heap0
     /\ self = Constructed
C4_Witness ==
  /\ Called /\ Arg.kind = "dict" /\ outcome.error = "ValueError"
  /\ heap0[Arg.data].device # self._device
  /\ heap0[Arg.data].requires_grad # self._requires_grad

\* C5: with a parent feeder u, a call on x has the outcome and the effects of
\* a call of a feeder with the same device and flag and no parent on u(x); the
\* parent is fed once, before anything else.
C5_ChainedThroughParent ==
  (Called /\ ctor.parent_feeder # "None") =>
     LET B == NewFeeder(ctor.device, ctor.requires_grad, "None")
         r == feed(B, Upstream(ctor.parent_feeder, x), heap0, envFail)
     IN /\ outcome = r.outcome
        /\ heap = r.heap
        /\ log # << >>
        /\ log[1].op = "parent"
        /\ Len(PrimLog) = Len(log) - 1
        /\ PrimLog = r.log
C5_Witness ==
  /\ Called /\ ctor.parent_feeder = "item" /\ x.kind = "dict"
  /\ outcome.kind = "return" /\ outcome.value.kind = "PaddedTensor"

\* C6 as stated: after a call on a Tensor, PaddedTensor or PackedSequence the
\* tensors of the caller are as they were before it, and so is the feeder.
C6_InputUntouched ==
  (Called /\ Arg.kind \in RecognizedKinds) =>
     /\ \A id \in DOMAIN heap0 : heap[id] = heap0[id]
     /\ self = Constructed

\* C6 as amended: a call changes no device, no tensor other than the data of
\* its input and nothing of the feeder; of the data it changes the
\* requires_grad flag alone, to the configured flag, and does so exactly when
\* its requires_grad_ step ran without raising (also when the call then fails).
C6_OnlyDataFlagSet ==
  (Called /\ Arg.kind \in RecognizedKinds) =>
     /\ self = Constructed
     /\ \A id \in DOMAIN heap0 : id # Arg.data => heap[id] = heap0[id]
     /\ heap[Arg.data] =
          IF \E i \in DOMAIN log :
               log[i].op = "requires_grad_" /\ log[i].raised = ""
            THEN [heap0[Arg.data] EXCEPT !.requires_grad = self._requires_grad]
            ELSE heap0[Arg.data]
C6_Witness ==
  /\ Called /\ IsBatch(Arg) /\ outcome.kind = "raise"
  /\ heap[Arg.data].requires_grad # heap0[Arg.data].requires_grad

\* What a value is in effect: its type and the state of its tensors.
Effect(v, h) ==
  [kind |-> v.kind, data |-> h[v.data],
   sizes |-> IF v.sizes = 0 THEN h[v.data] ELSE h[v.sizes]]

\* C7: for every input of a recognized type (no primitive raising) the call
\* returns, and a call on what a call returned returns a value equal to it in
\* effect.
C7_Idempotent ==
  (Called /\ Arg.kind \in RecognizedKinds /\ ~PrimitiveRaised) =>
     /\ outcome.kind = "return"
     /\ again => Effect(outcome.value, heap) = Effect(x, heap0)

\* C7 on the batches alone: a call on the batch a call returned returns it as
\* it is (no primitive raises, nothing is copied, nothing changes).
C7_IdempotentOnBatches ==
  (Called /\ again /\ IsBatch(Arg)) =>
     /\ outcome = Return(x)
     /\ heap = heap0

\* C8: the feeder's device and flag are those of its construction (the flag
\* off when not given) after any calls, and the outcome of a call is that of
\* a freshly constructed feeder on the same input.
C8_ConfigurationFixed ==
  /\ self = Constructed
  /\ (ctor.requires_grad = "default" => ~self._requires_grad)
  /\ self._device = ctor.device
  /\ Called =>
       LET r == feed(Constructed, x, heap0, envFail)
       IN outcome = r.outcome /\ heap = r.heap
C8_Witness ==
  /\ ncalls >= 2 /\ ctor.requires_grad = "default"
  /\ outcome.kind = "return" /\ ~again
  /\ heap0[Arg.data].requires_grad

\* C9: on an input of a recognized type a call raises only the error a
\* primitive raised, unchanged, and returns nothing.
C9_OnlyPrimitiveErrors ==
  (Called /\ Arg.kind \in RecognizedKinds /\ outcome.kind = "raise") =>
     RaisedByPrimitive

\* C9 on the batches alone.
C9_OnlyPrimitiveErrorsOnBatches ==
  (Called /\ IsBatch(Arg) /\ outcome.kind = "raise") => RaisedByPrimitive

\* C10: a call on a PaddedTensor or PackedSequence that returns has run, in
\* this order: the transfer of the descriptor to the configured device, the
\* setting of the configured flag on the data, the transfer of the data to the
\* configured device, the construction of the result from the two transferred
\* tensors; the flag is set on nothing else.
C10_StepsInOrder ==
  (Called /\ IsBatch(Arg) /\ outcome.kind = "return") =>
     /\ PrimLog =
          << Entry("to", Arg.sizes, self._device, FALSE, ""),
             Entry("requires_grad_", Arg.data, 0, self._requires_grad, ""),
             Entry("to", Arg.data, self._device, FALSE, ""),
             Entry(Arg.kind, outcome.value.data, 0, FALSE, "") >>
     /\ outcome.value.sizes =
          to(heap0, Arg.sizes, self._device, TRUE).id
     /\ heap[outcome.value.data].device = self._device
     /\ heap[outcome.value.sizes].device = self._device
C10_Witness ==
  /\ Called /\ IsBatch(Arg) /\ outcome.kind = "return"
  /\ Len(heap) = Len(heap0) + 2
  /\ heap[Arg.data].requires_grad # heap0[Arg.data].requires_grad

====
